---- MODULE Spec2Model ----
(***************************************************************************)
(* Blackmagic RAW frame extraction: the metadata query and the frame       *)
(* decode session of the three programs of the repository,                 *)
(*   "addon"     src/server/native/braw_addon.cpp  (ExtractMetadata,       *)
(*               ExtractFrame, class BRAWCallback)                         *)
(*   "extract"   src/server/braw-extract.cpp       (extract_metadata,      *)
(*               extract_frame, class BRAWCallback, g_callback)            *)
(*   "extractor" src/server/braw-extractor.cpp     (extract_metadata,      *)
(*               extract_frame, class CameraCodecCallback, globals)   *)
(* together with the vendor pipeline they call: the jobs it accepts, the   *)
(* completion callbacks it invokes on its worker threads and FlushJobs.    *)
(*                                                                         *)
(* The session thread is the variable pc; one action is one step of it.    *)
(* The pipeline is the environment: it answers every call with S_OK or a   *)
(* failure, invokes ReadComplete / ProcessComplete for accepted jobs, and  *)
(* returns from FlushJobs with S_OK only when no job is outstanding.  A    *)
(* FlushJobs that reports an error promises nothing about the jobs.        *)
(***************************************************************************)
EXTENDS Integers, Sequences, FiniteSets, TLC

\* ------------------------------------------------------------------ bounds

\* Widths of the integer types, scaled down so that every value can be
\* enumerated: int (32 bits in the build) and long / uint64_t (64 bits).
IntBits == 2
LongBits == 3
\* Sessions run one after the other in one process.
MaxSessions == 2
\* ProcessComplete invocations the pipeline makes for one decode job (the
\* contract says one; more is the defensive case).
MaxProcessCalls == 2

\* Width of unsigned int (32 bits in the build), scaled down like the others
\* but wide enough for the byte count of the smallest image.
UIntBits == 3

Pow2(n) == 2 ^ n

Variants == {"addon", "extract", "extractor"}
Handles == {"factory", "codec", "clip"}
HR == {"S_OK", "E_FAIL"}

\* (w, h) a processed image declares.
ImgDims == {<<1, 1>>, <<2, 3>>}
ImageIds == 1 .. MaxProcessCalls

\* The calls a session makes into the pipeline, counted per session.
CallNames == {"GetFrameCount", "GetWidth", "GetHeight", "GetFrameRate",
              "SetCallback", "CreateJobReadFrame", "SubmitRead", "FlushJobs",
              "SetResourceFormat", "CreateJobDecodeAndProcessFrame",
              "SubmitDecode"}

\* ------------------------------------------------------------ integer types

\* static_cast to a signed type of `bits` bits (two's complement).
ToSigned(x, bits) ==
    LET m == x % Pow2(bits)
    IN  IF m >= Pow2(bits - 1) THEN m - Pow2(bits) ELSE m

SignedRange(bits) == (0 - Pow2(bits - 1)) .. (Pow2(bits - 1) - 1)

\* a * b in unsigned int arithmetic.
UIntMul(a, b) == (a * b) % Pow2(UIntBits)

\* Bytes of one RGBA U8 pixel.
BytesPerPixel == 4

\* size_t bufferSize = width * height * 4: the product is computed in
\* unsigned int and then widened.
BufferSize(w, h) == UIntMul(UIntMul(w, h), BytesPerPixel)

\* write_ppm: for (unsigned int i = 0; i < width * height; i++) reads the
\* pixel at rgba[i * 4], index and bound computed in unsigned int.
PixelOffsets(w, h) ==
    {UIntMul(i, BytesPerPixel) : i \in 0 .. (UIntMul(w, h) - 1)}

\* The bytes of the image covered by the pixels write_ppm reads.
BytesRead(w, h) == BytesPerPixel * Cardinality(PixelOffsets(w, h))

\* uint64_t frame_count
FrameCounts == 0 .. (Pow2(LongBits) - 1)

\* The type of the frame index: int in braw-extract.cpp, long elsewhere.
IndexBits(v) == IF v = "extract" THEN IntBits ELSE LongBits
FrameIndexes(v) == SignedRange(IndexBits(v))

\* The check with > for >=: the index equal to the count passes.
IndexOutOfRangeOffByOne(v, idx, count) ==
    idx < 0 \/ idx > ToSigned(count, IndexBits(v))

\* frame_index < 0 || frame_index >= (T)frame_count
IndexOutOfRange(v, idx, count) ==
    idx < 0 \/ idx >= ToSigned(count, IndexBits(v))

\* -------------------------------------------------------------------- state

VARIABLES
    variant,          \* which program runs (fixed for the process)
    session,          \* sessions started so far in this process
    op,               \* "frame" | "metadata" | "none": the running operation
    pc,               \* position of the session thread
    frameIndex,       \* the requested index (frame op)
    frameCount,       \* what the clip reports (set when the clip opens)
    result,           \* HRESULT result of the do { } while(0) variants
    acq,              \* per handle: acquired (pointer non-null) this session
    rel,              \* per handle: Release() calls this session
    calls,            \* per pipeline call: times called this session
    readJob,          \* "none" | "created" | "rejected" | "outstanding" |
                      \* "completed" | "dropped"
    decodeJob,        \* same, the chained decode-and-process job
    readJobRel,       \* Release() calls on the read job
    decodeJobRel,     \* Release() calls on the decode-and-process job
    rc,               \* what ReadComplete saw: status and each step's result
    pcCalls,          \* ProcessComplete invocations this session
    processResult,    \* per invocation: the HRESULT ProcessComplete was given
    processed_image,  \* BRAWCallback::processed_image (0 is nullptr)
    error_occurred,   \* BRAWCallback::error_occurred
    g_output_success, \* braw-extractor.cpp globals
    g_output_width,
    g_output_height,
    imgDims,          \* per image id: the (w, h) it declares
    imgRef,           \* per image id: AddRef() calls by the sink
    imgRel,           \* per image id: Release() calls by the sink
    flushed,          \* "no" | "S_OK" | "E_FAIL": what FlushJobs returned
    width,            \* locals of the session thread
    height,
    resourceType,     \* "unset" | "cpu" | "gpu"
    imageData,        \* "unset" | "null" | "nonnull"
    written,          \* "unset" | "yes" | "no": what write_ppm returned
    bufferSize,       \* bytes of pixel data taken from the image
    imageDataOf,      \* the image imageData points into (0: none)
    pixelsRead,       \* "none" | "held" | "released": the image when its
                      \* pixel data was read
    results,          \* result objects / JSON documents emitted this session
    retCode,          \* return value of the CLI operation (-1: none yet)
    orphanJobs,       \* jobs still outstanding when the session returned
    lateCallback      \* a callback was invoked after the session returned

handleVars == <<acq, rel>>
jobVars == <<readJob, decodeJob, readJobRel, decodeJobRel, rc, pcCalls,
             processResult>>
sinkVars == <<processed_image, error_occurred, g_output_success,
              g_output_width, g_output_height>>
imgVars == <<imgDims, imgRef, imgRel>>
localVars == <<width, height, resourceType, imageData, written,
               bufferSize, imageDataOf, pixelsRead>>
requestVars == <<variant, session, op, frameIndex, frameCount>>
lateVars == <<orphanJobs, lateCallback>>

vars == <<variant, session, op, pc, frameIndex, frameCount, result, acq, rel,
          calls, readJob, decodeJob, readJobRel, decodeJobRel, rc, pcCalls,
          processResult, processed_image, error_occurred, g_output_success,
          g_output_width, g_output_height, imgDims, imgRef, imgRel, flushed,
          width, height, resourceType, imageData, written, bufferSize,
          imageDataOf, pixelsRead, results, retCode, orphanJobs, lateCallback>>

NoCalls == [c \in CallNames |-> 0]
NoHandles == [h \in Handles |-> 0]
NoRc == [status |-> "none", format |-> "none", create |-> "none",
         submit |-> "none"]
NoImages == [i \in ImageIds |-> 0]
NoDims == [i \in ImageIds |-> <<0, 0>>]
NoResults == [i \in ImageIds |-> "none"]

Init ==
    /\ variant \in Variants
    /\ session = 0
    /\ op = "none"
    /\ pc = "idle"
    /\ frameIndex = 0
    /\ frameCount = 0
    /\ result = "S_OK"
    /\ acq = NoHandles
    /\ rel = NoHandles
    /\ calls = NoCalls
    /\ readJob = "none"
    /\ decodeJob = "none"
    /\ readJobRel = 0
    /\ decodeJobRel = 0
    /\ rc = NoRc
    /\ pcCalls = 0
    /\ processResult = NoResults
    /\ processed_image = 0
    /\ error_occurred = FALSE
    /\ g_output_success = FALSE
    /\ g_output_width = 0
    /\ g_output_height = 0
    /\ imgDims = NoDims
    /\ imgRef = NoImages
    /\ imgRel = NoImages
    /\ flushed = "no"
    /\ width = 0
    /\ height = 0
    /\ resourceType = "unset"
    /\ imageData = "unset"
    /\ written = "unset"
    /\ bufferSize = 0
    /\ imageDataOf = 0
    /\ pixelsRead = "none"
    /\ results = <<>>
    /\ retCode = -1
    /\ orphanJobs = 0
    /\ lateCallback = FALSE

\* ------------------------------------------------------------------ helpers

Called(f, c) == [f EXCEPT ![c] = @ + 1]

\* An exit path that forgets clip->Release().
ReleasedButClip(f, hs) ==
    [h \in Handles |-> IF h \in hs \ {"clip"} THEN f[h] + 1 ELSE f[h]]

\* f after one Release() of each handle in hs.
Released(f, hs) == [h \in Handles |-> IF h \in hs THEN f[h] + 1 ELSE f[h]]

Outstanding(j) == IF j = "outstanding" THEN 1 ELSE 0

NoJobOutstanding == readJob # "outstanding" /\ decodeJob # "outstanding"

Failure(msg) == [success |-> FALSE, msg |-> msg, width |-> 0, height |-> 0]
Success(msg, w, h) == [success |-> TRUE, msg |-> msg, width |-> w, height |-> h]

Orphaned(j) == IF j = "outstanding" THEN "orphaned" ELSE j

\* The function returns with the read job in state rj: jobs still
\* outstanding outlive the session.
Returns(rj) ==
    /\ pc' = "done"
    /\ orphanJobs' = orphanJobs + Outstanding(rj) + Outstanding(decodeJob)
    /\ readJob' = Orphaned(rj)
    /\ decodeJob' = Orphaned(decodeJob)

\* An error exit of a session step, the read job being in state rj.
\* braw-extract.cpp prints the error, releases the handles hs it names on
\* that path and returns 1; the other two set the error (and result), leave
\* the do { } while(0) and clean up after it.
Leave(msg, hr, hs, rj) ==
    /\ results' = Append(results, Failure(msg))
    /\ result' = hr
    /\ IF variant = "extract"
       THEN /\ rel' = Released(rel, hs)
            /\ retCode' = 1
            /\ Returns(rj)
       ELSE /\ pc' = "cleanup"
            /\ readJob' = rj
            /\ UNCHANGED <<rel, retCode, decodeJob, orphanJobs>>

\* --------------------------------------------------------- the session thread

\* main / the host calls the operation.  ExtractFrame and braw-extractor's
\* extract_frame construct the sink on the stack; braw-extract's
\* extract_frame deletes the sink of the previous call and allocates a new
\* one; braw-extractor's clears g_output_success (not the width and height).
Start(o, idx) ==
    /\ pc \in {"idle", "done"}
    /\ session < MaxSessions
    /\ session' = session + 1
    /\ op' = o
    /\ frameIndex' = idx
    /\ frameCount' = 0
    /\ pc' = "factory"
    /\ result' = "S_OK"
    /\ acq' = NoHandles
    /\ rel' = NoHandles
    /\ calls' = NoCalls
    /\ readJob' = "none"
    /\ decodeJob' = "none"
    /\ readJobRel' = 0
    /\ decodeJobRel' = 0
    /\ rc' = NoRc
    /\ pcCalls' = 0
    /\ processResult' = NoResults
    /\ flushed' = "no"
    /\ width' = 0
    /\ height' = 0
    /\ resourceType' = "unset"
    /\ imageData' = "unset"
    /\ written' = "unset"
    /\ bufferSize' = 0
    /\ imageDataOf' = 0
    /\ pixelsRead' = "none"
    /\ results' = <<>>
    /\ retCode' = -1
    /\ IF o = "frame"
       THEN /\ processed_image' = 0
            /\ error_occurred' = FALSE
            /\ g_output_success' = FALSE
            /\ imgDims' = NoDims
            /\ imgRef' = NoImages
            /\ imgRel' = NoImages
       ELSE UNCHANGED <<processed_image, error_occurred, g_output_success,
                        imgDims, imgRef, imgRel>>
    /\ orphanJobs' = 0
    /\ lateCallback' = FALSE
    /\ UNCHANGED <<variant, g_output_width, g_output_height>>

StartFrame == \E idx \in FrameIndexes(variant) : Start("frame", idx)

StartMetadata == Start("metadata", 0)

\* factory = CreateBlackmagicRawFactoryInstanceFromPath(...)
CreateFactory(ok) ==
    /\ pc = "factory"
    /\ IF ok
       THEN /\ acq' = [acq EXCEPT !["factory"] = 1]
            /\ pc' = "codec"
            /\ UNCHANGED <<result, rel, results, retCode, readJob, decodeJob,
                           orphanJobs>>
       ELSE /\ Leave("Failed to create factory", result, {}, readJob)
            /\ UNCHANGED acq
    /\ UNCHANGED flushed
    /\ UNCHANGED <<requestVars, calls, readJobRel, decodeJobRel, rc, pcCalls,
                   processResult, sinkVars, imgVars, localVars, lateCallback>>

\* CreateCodec whose result is not looked at: the session goes on to open
\* the clip without a codec.
CreateCodecIgnoresFailure(hr) ==
    /\ pc = "codec"
    /\ acq' = IF hr = "S_OK" THEN [acq EXCEPT !["codec"] = 1] ELSE acq
    /\ pc' = "clip"
    /\ result' = hr
    /\ UNCHANGED flushed
    /\ UNCHANGED <<requestVars, rel, results, retCode, calls, jobVars,
                   sinkVars, imgVars, localVars, lateVars>>

\* result = factory->CreateCodec(&codec)
CreateCodec(hr) ==
    /\ pc = "codec"
    /\ IF hr = "S_OK"
       THEN /\ acq' = [acq EXCEPT !["codec"] = 1]
            /\ pc' = "clip"
            /\ result' = hr
            /\ UNCHANGED <<rel, results, retCode, readJob, decodeJob,
                           orphanJobs>>
       ELSE /\ Leave("Failed to create codec", hr, {"factory"}, readJob)
            /\ UNCHANGED acq
    /\ UNCHANGED flushed
    /\ UNCHANGED <<requestVars, calls, readJobRel, decodeJobRel, rc, pcCalls,
                   processResult, sinkVars, imgVars, localVars, lateCallback>>

\* result = codec->OpenClip(path, &clip)
OpenClip(hr, count) ==
    /\ pc = "clip"
    /\ IF hr = "S_OK"
       THEN /\ acq' = [acq EXCEPT !["clip"] = 1]
            /\ frameCount' = count
            /\ pc' = IF op = "metadata" THEN "query" ELSE "index"
            /\ result' = hr
            /\ UNCHANGED <<rel, results, retCode, readJob, decodeJob,
                           orphanJobs>>
       ELSE /\ Leave("Failed to open clip", hr, {"codec", "factory"}, readJob)
            /\ UNCHANGED <<acq, frameCount>>
    /\ UNCHANGED flushed
    /\ UNCHANGED <<variant, session, op, frameIndex, calls, readJobRel,
                   decodeJobRel, rc, pcCalls, processResult, sinkVars, imgVars,
                   localVars, lateCallback>>

AllHandles == {"clip", "codec", "factory"}

\* float frame_rate, as the clip reports it (frames per second).
FrameRates == {0, 24}

\* frame_count / frame_rate in float arithmetic: dividing by 0.0f gives an
\* infinity, or a NaN when the count is 0 as well; otherwise the quotient,
\* kept as the fraction num / den.
Duration(count, rate) ==
    [value |-> IF rate # 0 THEN "finite"
               ELSE IF count # 0 THEN "inf" ELSE "nan",
     num |-> count,
     den |-> rate]

\* The document the metadata query emits: "success": true, the four
\* properties as read and the duration as computed.
MetadataDocument(count, w, h, rate) ==
    [success |-> TRUE, msg |-> "metadata", width |-> w, height |-> h,
     frame_count |-> count, frame_rate |-> rate,
     duration |-> Duration(count, rate)]

\* A metadata query that drains the pipeline before it reads the clip.
QueryMetadataDrains(w, h, rate) ==
    /\ pc = "query"
    /\ calls' = Called(Called(Called(Called(Called(calls, "FlushJobs"),
                  "GetFrameCount"), "GetWidth"), "GetHeight"), "GetFrameRate")
    /\ results' = Append(results, MetadataDocument(frameCount, w, h, rate))
    /\ IF variant = "extract"
       THEN /\ rel' = Released(rel, AllHandles)
            /\ retCode' = 0
            /\ Returns(readJob)
       ELSE /\ pc' = "cleanup"
            /\ UNCHANGED <<rel, retCode, readJob, decodeJob, orphanJobs>>
    /\ UNCHANGED flushed
    /\ UNCHANGED <<requestVars, result, acq, readJobRel, decodeJobRel, rc,
                   pcCalls, processResult, sinkVars, imgVars, localVars,
                   lateCallback>>

\* The metadata query: the four getters, then the success document.
\* duration = frame_count / frame_rate is emitted as computed.
QueryMetadata(w, h, rate) ==
    /\ pc = "query"
    /\ calls' = Called(Called(Called(Called(calls, "GetFrameCount"),
                  "GetWidth"), "GetHeight"), "GetFrameRate")
    /\ results' = Append(results, MetadataDocument(frameCount, w, h, rate))
    /\ IF variant = "extract"
       THEN /\ rel' = Released(rel, AllHandles)
            /\ retCode' = 0
            /\ Returns(readJob)
       ELSE /\ pc' = "cleanup"
            /\ UNCHANGED <<rel, retCode, readJob, decodeJob, orphanJobs>>
    /\ UNCHANGED flushed
    /\ UNCHANGED <<requestVars, result, acq, readJobRel, decodeJobRel, rc,
                   pcCalls, processResult, sinkVars, imgVars, localVars,
                   lateCallback>>

\* clip->GetFrameCount(&frame_count);
\* if (frame_index < 0 || frame_index >= (T)frame_count) ...
CheckIndex ==
    /\ pc = "index"
    /\ calls' = Called(calls, "GetFrameCount")
    /\ IF IndexOutOfRange(variant, frameIndex, frameCount)
       THEN Leave("Frame index out of range", "E_FAIL", AllHandles, readJob)
       ELSE /\ pc' = "setcb"
            /\ UNCHANGED <<result, rel, results, retCode, readJob, decodeJob,
                           orphanJobs>>
    /\ UNCHANGED flushed
    /\ UNCHANGED <<requestVars, acq, readJobRel, decodeJobRel, rc, pcCalls,
                   processResult, sinkVars, imgVars, localVars, lateCallback>>

\* result = codec->SetCallback(&callback)
SetCallback(hr) ==
    /\ pc = "setcb"
    /\ calls' = Called(calls, "SetCallback")
    /\ IF hr = "S_OK"
       THEN /\ pc' = "createjob"
            /\ result' = hr
            /\ UNCHANGED <<rel, results, retCode, readJob, decodeJob,
                           orphanJobs>>
       ELSE Leave("Failed to set callback", hr, AllHandles, readJob)
    /\ UNCHANGED flushed
    /\ UNCHANGED <<requestVars, acq, readJobRel, decodeJobRel, rc, pcCalls,
                   processResult, sinkVars, imgVars, localVars, lateCallback>>

\* result = clip->CreateJobReadFrame(frameIndex, &readJob)
CreateJobReadFrame(hr) ==
    /\ pc = "createjob"
    /\ calls' = Called(calls, "CreateJobReadFrame")
    /\ IF hr = "S_OK"
       THEN /\ pc' = "submit"
            /\ result' = hr
            /\ readJob' = "created"
            /\ UNCHANGED <<rel, results, retCode, decodeJob, orphanJobs>>
       ELSE Leave("Failed to create read job", hr, AllHandles, readJob)
    /\ UNCHANGED flushed
    /\ UNCHANGED <<requestVars, acq, readJobRel, decodeJobRel, rc, pcCalls,
                   processResult, sinkVars, imgVars, localVars, lateCallback>>

\* Submit whose result is not looked at: the session goes on to FlushJobs
\* with a job the pipeline rejected.
SubmitReadJobIgnoresFailure(hr) ==
    /\ pc = "submit"
    /\ calls' = Called(calls, "SubmitRead")
    /\ pc' = IF variant = "extract" THEN "relread" ELSE "flush"
    /\ result' = hr
    /\ readJob' = IF hr = "S_OK" THEN "outstanding" ELSE "rejected"
    /\ UNCHANGED flushed
    /\ UNCHANGED <<requestVars, handleVars, results, retCode, decodeJob,
                   readJobRel, decodeJobRel, rc, pcCalls, processResult,
                   sinkVars, imgVars, localVars, lateVars>>

\* result = readJob->Submit(); on failure the session releases the job.
SubmitReadJob(hr) ==
    /\ pc = "submit"
    /\ calls' = Called(calls, "SubmitRead")
    /\ IF hr = "S_OK"
       THEN /\ pc' = IF variant = "extract" THEN "relread" ELSE "flush"
            /\ result' = hr
            /\ readJob' = "outstanding"
            /\ UNCHANGED <<rel, results, retCode, decodeJob, orphanJobs,
                           readJobRel>>
       ELSE /\ readJobRel' = readJobRel + 1
            /\ Leave("Failed to submit job", hr, AllHandles, "rejected")
    /\ UNCHANGED flushed
    /\ UNCHANGED <<requestVars, acq, decodeJobRel, rc, pcCalls, processResult,
                   sinkVars, imgVars, localVars, lateCallback>>

\* braw-extract.cpp only: readJob->Release() right after a successful Submit.
ReleaseReadJob ==
    /\ pc = "relread"
    /\ readJobRel' = readJobRel + 1
    /\ pc' = "flush"
    /\ UNCHANGED flushed
    /\ UNCHANGED <<requestVars, result, handleVars, calls, readJob, decodeJob,
                   decodeJobRel, rc, pcCalls, processResult, sinkVars, imgVars,
                   localVars, results, retCode, lateVars>>

\* A session that waits for an image instead of for the jobs.
FlushJobsWaitsForImage ==
    /\ pc = "flush"
    /\ NoJobOutstanding
    /\ processed_image # 0
    /\ calls' = Called(calls, "FlushJobs")
    /\ flushed' = "S_OK"
    /\ pc' = IF variant = "extractor" THEN "chksuccess" ELSE "chkerr"
    /\ UNCHANGED <<requestVars, result, handleVars, jobVars, sinkVars, imgVars,
                   localVars, results, retCode, lateVars>>

\* codec->FlushJobs() returns S_OK: every job has finished its callback.
FlushJobsReturns ==
    /\ pc = "flush"
    /\ NoJobOutstanding
    /\ calls' = Called(calls, "FlushJobs")
    /\ flushed' = "S_OK"
    /\ pc' = IF variant = "extractor" THEN "chksuccess" ELSE "chkerr"
    /\ UNCHANGED <<requestVars, result, handleVars, jobVars, sinkVars, imgVars,
                   localVars, results, retCode, lateVars>>

\* codec->FlushJobs() reports an error, whatever the jobs are doing.  Only
\* braw-extract.cpp looks at the value.
FlushJobsFails ==
    /\ pc = "flush"
    /\ calls' = Called(calls, "FlushJobs")
    /\ flushed' = "E_FAIL"
    /\ IF variant = "extract"
       THEN Leave("FlushJobs failed", "E_FAIL", AllHandles, readJob)
       ELSE /\ pc' = IF variant = "extractor" THEN "chksuccess" ELSE "chkerr"
            /\ UNCHANGED <<result, rel, results, retCode, readJob, decodeJob,
                           orphanJobs>>
    /\ UNCHANGED <<requestVars, acq, readJobRel, decodeJobRel, rc, pcCalls,
                   processResult, sinkVars, imgVars, localVars, lateCallback>>

\* CheckError without its break: the error is set and the checks go on.
CheckErrorNoBreak ==
    /\ pc = "chkerr"
    /\ pc' = "chkimg"
    /\ IF error_occurred
       THEN /\ results' = Append(results, Failure("Processing error occurred"))
            /\ result' = "E_FAIL"
       ELSE UNCHANGED <<results, result>>
    /\ UNCHANGED <<requestVars, handleVars, calls, jobVars, sinkVars, imgVars,
                   flushed, localVars, retCode, lateVars>>

\* A session that answers a set error flag with a second read job.
CheckErrorRetries ==
    /\ pc = "chkerr"
    /\ pc' = IF error_occurred THEN "createjob" ELSE "chkimg"
    /\ UNCHANGED <<requestVars, result, handleVars, calls, jobVars, sinkVars,
                   imgVars, flushed, localVars, results, retCode, lateVars>>

\* if (callback.error_occurred) ...
CheckError ==
    /\ pc = "chkerr"
    /\ IF error_occurred
       THEN Leave("Processing error occurred", "E_FAIL", AllHandles, readJob)
       ELSE /\ pc' = "chkimg"
            /\ UNCHANGED <<result, rel, results, retCode, readJob, decodeJob,
                           orphanJobs>>
    /\ UNCHANGED flushed
    /\ UNCHANGED <<requestVars, acq, calls, readJobRel, decodeJobRel, rc,
                   pcCalls, processResult, sinkVars, imgVars, localVars,
                   lateCallback>>

\* if (!callback.processed_image) ...
CheckImage ==
    /\ pc = "chkimg"
    /\ IF processed_image = 0
       THEN Leave("No processed image received", "E_FAIL", AllHandles, readJob)
       ELSE /\ pc' = "dims"
            /\ UNCHANGED <<result, rel, results, retCode, readJob, decodeJob,
                           orphanJobs>>
    /\ UNCHANGED flushed
    /\ UNCHANGED <<requestVars, acq, calls, readJobRel, decodeJobRel, rc,
                   pcCalls, processResult, sinkVars, imgVars, localVars,
                   lateCallback>>

\* callback.processed_image->GetWidth(&width); ...->GetHeight(&height);
GetDimensions ==
    /\ pc = "dims"
    /\ width' = imgDims[processed_image][1]
    /\ height' = imgDims[processed_image][2]
    /\ pc' = "restype"
    /\ UNCHANGED flushed
    /\ UNCHANGED <<resourceType, imageData, written, bufferSize, imageDataOf,
                   pixelsRead, requestVars, result, handleVars, calls,
                   jobVars, sinkVars, imgVars, results, retCode, lateVars>>

\* callback.processed_image->GetResourceType(&resourceType)
GetResourceType(cpu) ==
    /\ pc = "restype"
    /\ resourceType' = IF cpu THEN "cpu" ELSE "gpu"
    /\ IF cpu
       THEN /\ pc' = "getres"
            /\ UNCHANGED <<result, rel, results, retCode, readJob, decodeJob,
                           orphanJobs>>
       ELSE Leave("Unexpected resource type", "E_FAIL", AllHandles, readJob)
    /\ UNCHANGED flushed
    /\ UNCHANGED <<requestVars, acq, calls, readJobRel, decodeJobRel, rc,
                   pcCalls, processResult, sinkVars, imgVars, width, height,
                   imageData, written, bufferSize, imageDataOf, pixelsRead,
                   lateCallback>>

\* GetResource without the test of the pointer: a null pointer goes on to
\* the copy.
GetResourceIgnoresNull(hr, nonNull) ==
    /\ pc = "getres"
    /\ imageData' = IF nonNull THEN "nonnull" ELSE "null"
    /\ imageDataOf' = processed_image
    /\ IF hr = "S_OK"
       THEN /\ pc' = "emit"
            /\ result' = hr
            /\ UNCHANGED <<rel, results, retCode, readJob, decodeJob,
                           orphanJobs>>
       ELSE Leave("Failed to get image data", hr, AllHandles, readJob)
    /\ UNCHANGED flushed
    /\ UNCHANGED <<requestVars, acq, calls, readJobRel, decodeJobRel, rc,
                   pcCalls, processResult, sinkVars, imgVars, width, height,
                   resourceType, written, bufferSize, pixelsRead, lateCallback>>

\* result = callback.processed_image->GetResource(&imageData);
\* if (result != S_OK || !imageData) ...
GetResource(hr, nonNull) ==
    /\ pc = "getres"
    /\ imageData' = IF nonNull THEN "nonnull" ELSE "null"
    /\ imageDataOf' = processed_image
    /\ IF hr = "S_OK" /\ nonNull
       THEN /\ pc' = "emit"
            /\ result' = hr
            /\ UNCHANGED <<rel, results, retCode, readJob, decodeJob,
                           orphanJobs>>
       ELSE Leave("Failed to get image data", hr, AllHandles, readJob)
    /\ UNCHANGED flushed
    /\ UNCHANGED <<requestVars, acq, calls, readJobRel, decodeJobRel, rc,
                   pcCalls, processResult, sinkVars, imgVars, width, height,
                   resourceType, written, bufferSize, pixelsRead, lateCallback>>

\* The image i at the moment its pixel data is read through the pointer
\* GetResource gave: still the sink's image, with the sink's reference on
\* it, or already released by the sink (replaced by a later image).
ImageWhenRead(i) ==
    IF processed_image = i /\ imgRef[i] > imgRel[i] THEN "held" ELSE "released"

\* braw_addon.cpp: copy width * height * 4 bytes into a Buffer and build the
\* success object.
CopyAndSucceed ==
    /\ pc = "emit"
    /\ variant = "addon"
    /\ bufferSize' = BufferSize(width, height)
    /\ pixelsRead' = ImageWhenRead(imageDataOf)
    /\ results' = Append(results, Success("frame", width, height))
    /\ pc' = "cleanup"
    /\ UNCHANGED flushed
    /\ UNCHANGED <<requestVars, result, handleVars, calls, jobVars, sinkVars,
                   imgVars, width, height, resourceType, imageData, written,
                   imageDataOf, retCode, lateVars>>

\* braw-extract.cpp: write_ppm, then the success document and return 0.
WriteAndSucceed(ok) ==
    /\ pc = "emit"
    /\ variant = "extract"
    /\ written' = IF ok THEN "yes" ELSE "no"
    /\ bufferSize' = IF ok THEN BytesRead(width, height) ELSE bufferSize
    /\ pixelsRead' = IF ok THEN ImageWhenRead(imageDataOf) ELSE pixelsRead
    /\ IF ok
       THEN /\ results' = Append(results, Success("frame", width, height))
            /\ rel' = Released(rel, AllHandles)
            /\ retCode' = 0
            /\ Returns(readJob)
            /\ UNCHANGED result
       ELSE Leave("Failed to write output file", result, AllHandles, readJob)
    /\ UNCHANGED flushed
    /\ UNCHANGED <<requestVars, acq, calls, readJobRel, decodeJobRel, rc,
                   pcCalls, processResult, sinkVars, imgVars, width, height,
                   resourceType, imageData, imageDataOf, lateCallback>>

\* braw-extractor.cpp: if (g_output_success) success else error.
CheckOutputSuccess ==
    /\ pc = "chksuccess"
    /\ IF g_output_success
       THEN /\ results' = Append(results,
                   Success("frame", g_output_width, g_output_height))
            /\ UNCHANGED result
       ELSE /\ results' = Append(results, Failure("Failed to write output file"))
            /\ result' = "E_FAIL"
    /\ pc' = "cleanup"
    /\ UNCHANGED flushed
    /\ UNCHANGED <<requestVars, handleVars, calls, jobVars, sinkVars, imgVars,
                   localVars, retCode, lateVars>>

\* After the do { } while(0): release what is non-null, return.  The
\* addon's BRAWCallback is destroyed on return and releases the image it
\* holds; braw-extractor returns result == S_OK ? 0 : 1.
Cleanup ==
    /\ pc = "cleanup"
    /\ rel' = [h \in Handles |-> IF acq[h] # 0 THEN rel[h] + 1 ELSE rel[h]]
    /\ retCode' = IF variant = "extractor"
                  THEN (IF result = "S_OK" THEN 0 ELSE 1)
                  ELSE retCode
    /\ imgRel' = IF variant = "addon" /\ op = "frame" /\ processed_image # 0
                 THEN [imgRel EXCEPT ![processed_image] = @ + 1]
                 ELSE imgRel
    /\ Returns(readJob)
    /\ UNCHANGED flushed
    /\ UNCHANGED <<requestVars, result, acq, calls, readJobRel, decodeJobRel,
                   rc, pcCalls, processResult, sinkVars, imgDims, imgRef,
                   localVars, results, lateCallback>>

\* ------------------------------------------------- the completion callbacks

\* The first step of ReadComplete that does not return S_OK.
ReadFailures == {"none", "status", "format", "create", "submit"}

\* ReadComplete without the test of SetResourceFormat's result: the job is
\* created and submitted after a format failure.
ReadChainIgnoresFormat(failAt) ==
    [status |-> IF failAt = "status" THEN "E_FAIL" ELSE "S_OK",
     format |-> IF failAt = "status" THEN "none"
                ELSE IF failAt = "format" THEN "E_FAIL" ELSE "S_OK",
     create |-> IF failAt = "status" THEN "none"
                ELSE IF failAt = "create" THEN "E_FAIL" ELSE "S_OK",
     submit |-> IF failAt \in {"status", "create"} THEN "none"
                ELSE IF failAt = "submit" THEN "E_FAIL" ELSE "S_OK"]

\* What each step of ReadComplete returned, given the first that failed:
\* a step after a failure is not called.
ReadChain(failAt) ==
    [status |-> IF failAt = "status" THEN "E_FAIL" ELSE "S_OK",
     format |-> IF failAt = "status" THEN "none"
                ELSE IF failAt = "format" THEN "E_FAIL" ELSE "S_OK",
     create |-> IF failAt \in {"status", "format"} THEN "none"
                ELSE IF failAt = "create" THEN "E_FAIL" ELSE "S_OK",
     submit |-> IF failAt \in {"status", "format", "create"} THEN "none"
                ELSE IF failAt = "submit" THEN "E_FAIL" ELSE "S_OK"]

CountIf(b) == IF b THEN 1 ELSE 0

\* ReadComplete submitting the decode job whatever came before.
DecodeJobAlwaysSubmitted(failAt, dj) == "outstanding"

\* The decode-and-process job after ReadComplete: submitted only when every
\* step returned S_OK, created and rejected when only Submit failed.
DecodeJobAfterRead(failAt, dj) ==
    IF failAt = "none" THEN "outstanding"
    ELSE IF failAt = "submit" THEN "rejected" ELSE dj

\* A ReadComplete that releases the read job only at the end of the path on
\* which every step returned S_OK.
ReadCompleteLeaksOnFailure(failAt) ==
    /\ readJob = "outstanding"
    /\ rc' = ReadChain(failAt)
    /\ calls' =
         [c \in CallNames |->
            calls[c] + CountIf(
               \/ c = "SetResourceFormat" /\ ReadChain(failAt).format # "none"
               \/ c = "CreateJobDecodeAndProcessFrame"
                    /\ ReadChain(failAt).create # "none"
               \/ c = "SubmitDecode" /\ ReadChain(failAt).submit # "none")]
    /\ decodeJob' = DecodeJobAfterRead(failAt, decodeJob)
    /\ decodeJobRel' = decodeJobRel + CountIf(
                          \/ failAt = "submit"
                          \/ variant = "extract" /\ failAt = "none")
    /\ error_occurred' = IF variant # "extractor" /\ failAt # "none"
                         THEN TRUE ELSE error_occurred
    /\ readJobRel' = readJobRel + CountIf(failAt = "none")
    /\ readJob' = "completed"
    /\ UNCHANGED flushed
    /\ UNCHANGED <<requestVars, pc, result, handleVars, pcCalls, processResult,
                   processed_image, g_output_success, g_output_width,
                   g_output_height, imgVars, localVars, results, retCode,
                   lateVars>>

\* ReadComplete(readJob, result, frame), invoked by the pipeline for the
\* accepted read job: SetResourceFormat, CreateJobDecodeAndProcessFrame,
\* Submit, each only if everything before it returned S_OK.  BRAWCallback
\* sets error_occurred on any failure; CameraCodecCallback has no such flag.
\* braw-extract.cpp releases the decode job after Submit whatever Submit
\* returned; the other two release it only when Submit failed.
ReadComplete(failAt) ==
    /\ readJob = "outstanding"
    /\ rc' = ReadChain(failAt)
    /\ calls' =
         [c \in CallNames |->
            calls[c] + CountIf(
               \/ c = "SetResourceFormat" /\ ReadChain(failAt).format # "none"
               \/ c = "CreateJobDecodeAndProcessFrame"
                    /\ ReadChain(failAt).create # "none"
               \/ c = "SubmitDecode" /\ ReadChain(failAt).submit # "none")]
    /\ decodeJob' = DecodeJobAfterRead(failAt, decodeJob)
    /\ decodeJobRel' = decodeJobRel + CountIf(
                          \/ failAt = "submit"
                          \/ variant = "extract" /\ failAt = "none")
    /\ error_occurred' = IF variant # "extractor" /\ failAt # "none"
                         THEN TRUE ELSE error_occurred
    /\ readJobRel' = readJobRel + 1
    /\ readJob' = "completed"
    /\ UNCHANGED flushed
    /\ UNCHANGED <<requestVars, pc, result, handleVars, pcCalls, processResult,
                   processed_image, g_output_success, g_output_width,
                   g_output_height, imgVars, localVars, results, retCode,
                   lateVars>>

\* The first step of ProcessComplete that does not return S_OK.
\* BRAWCallback looks at the status only; CameraCodecCallback also at the
\* three getters.
ProcessFailures(v) ==
    IF v = "extractor"
    THEN {"none", "status", "GetWidth", "GetHeight", "GetResource"}
    ELSE {"none", "status"}

\* The body of ProcessComplete(job, result, processedImage); the image
\* delivered by the k-th invocation is image k and declares dims.
\* BRAWCallback: on failure set error_occurred; on success release the image
\* held, store the new one and AddRef it.  CameraCodecCallback: on success
\* store the size in the globals, write the file and store whether that
\* worked.  Both release the job.
ProcessCompleteBody(failAt, dims, wrote) ==
    LET img == pcCalls + 1 IN
    /\ pcCalls' = pcCalls + 1
    /\ processResult' = [processResult EXCEPT ![img] =
                             IF failAt = "status" THEN "E_FAIL" ELSE "S_OK"]
    /\ decodeJob' = "completed"
    /\ decodeJobRel' = decodeJobRel + 1
    /\ imgDims' = IF failAt = "status" THEN imgDims
                  ELSE [imgDims EXCEPT ![img] = dims]
    /\ IF variant = "extractor"
       THEN /\ IF failAt = "none"
               THEN /\ g_output_width' = dims[1]
                    /\ g_output_height' = dims[2]
                    /\ g_output_success' = wrote
                    /\ bufferSize' = IF wrote THEN BytesRead(dims[1], dims[2])
                                     ELSE bufferSize
                    /\ pixelsRead' = IF wrote THEN "held" ELSE pixelsRead
               ELSE UNCHANGED <<g_output_width, g_output_height,
                                g_output_success, bufferSize, pixelsRead>>
            /\ UNCHANGED <<processed_image, error_occurred, imgRef, imgRel>>
       ELSE /\ IF failAt = "none"
               THEN /\ imgRel' = IF processed_image # 0
                                 THEN [imgRel EXCEPT ![processed_image] = @ + 1]
                                 ELSE imgRel
                    /\ processed_image' = img
                    /\ imgRef' = [imgRef EXCEPT ![img] = @ + 1]
                    /\ UNCHANGED error_occurred
               ELSE /\ error_occurred' = TRUE
                    /\ UNCHANGED <<processed_image, imgRef, imgRel>>
            /\ UNCHANGED <<g_output_width, g_output_height, g_output_success,
                           bufferSize, pixelsRead>>
    /\ UNCHANGED flushed
    /\ UNCHANGED <<requestVars, pc, result, handleVars, calls, readJob,
                   readJobRel, rc, width, height, resourceType, imageData,
                   written, imageDataOf, results, retCode, lateVars>>

\* The pipeline invokes ProcessComplete for the accepted decode job.
ProcessComplete(failAt, dims, wrote) ==
    /\ decodeJob = "outstanding"
    /\ ProcessCompleteBody(failAt, dims, wrote)

\* The pipeline invokes ProcessComplete again for a job it already completed
\* (outside its contract), before the session returned and before a
\* FlushJobs that returned S_OK: after that the pipeline is idle.
ProcessCompleteAgain(failAt, dims, wrote) ==
    /\ decodeJob = "completed"
    /\ pc # "done"
    /\ flushed # "S_OK"
    /\ pcCalls < MaxProcessCalls
    /\ ProcessCompleteBody(failAt, dims, wrote)

\* The pipeline drops an accepted job without invoking its callback
\* (outside its contract).
DropReadJob ==
    /\ readJob = "outstanding"
    /\ readJob' = "dropped"
    /\ UNCHANGED flushed
    /\ UNCHANGED <<requestVars, pc, result, handleVars, calls, decodeJob,
                   readJobRel, decodeJobRel, rc, pcCalls, processResult,
                   sinkVars, imgVars, localVars, results, retCode, lateVars>>

DropDecodeJob ==
    /\ decodeJob = "outstanding"
    /\ decodeJob' = "dropped"
    /\ UNCHANGED flushed
    /\ UNCHANGED <<requestVars, pc, result, handleVars, calls, readJob,
                   readJobRel, decodeJobRel, rc, pcCalls, processResult,
                   sinkVars, imgVars, localVars, results, retCode, lateVars>>

\* A job that outlived its session completes: the pipeline calls into a
\* sink whose session has returned (codec and clip released, the stack sink
\* destroyed).  What that call does is undefined; only the call is recorded.
LateCallback ==
    /\ orphanJobs > 0
    /\ orphanJobs' = orphanJobs - 1
    /\ lateCallback' = TRUE
    /\ UNCHANGED flushed
    /\ UNCHANGED <<requestVars, pc, result, handleVars, calls, jobVars,
                   sinkVars, imgVars, localVars, results, retCode>>

\* ------------------------------------------------------------ specification

SessionStep ==
    \/ \E ok \in BOOLEAN : CreateFactory(ok)
    \/ \E hr \in HR : CreateCodec(hr)
    \/ \E hr \in HR, count \in FrameCounts : OpenClip(hr, count)
    \/ \E d \in ImgDims, rate \in FrameRates : QueryMetadata(d[1], d[2], rate)
    \/ CheckIndex
    \/ \E hr \in HR : SetCallback(hr)
    \/ \E hr \in HR : CreateJobReadFrame(hr)
    \/ \E hr \in HR : SubmitReadJob(hr)
    \/ ReleaseReadJob
    \/ FlushJobsReturns
    \/ CheckError
    \/ CheckImage
    \/ GetDimensions
    \/ \E cpu \in BOOLEAN : GetResourceType(cpu)
    \/ \E hr \in HR, nonNull \in BOOLEAN : GetResource(hr, nonNull)
    \/ CopyAndSucceed
    \/ \E ok \in BOOLEAN : WriteAndSucceed(ok)
    \/ CheckOutputSuccess
    \/ Cleanup

Callback ==
    \/ \E f \in ReadFailures : ReadComplete(f)
    \/ \E f \in ProcessFailures(variant), d \in ImgDims, w \in BOOLEAN :
          ProcessComplete(f, d, w)

Misbehaviour ==
    \/ \E f \in ProcessFailures(variant), d \in ImgDims, w \in BOOLEAN :
          ProcessCompleteAgain(f, d, w)
    \/ DropReadJob
    \/ DropDecodeJob

Next ==
    \/ StartFrame
    \/ StartMetadata
    \/ SessionStep
    \/ FlushJobsFails
    \/ Callback
    \/ Misbehaviour
    \/ LateCallback

Spec == Init /\ [][Next]_vars

\* A pipeline that also repeats and drops callbacks.
ContractNextWithMisbehaviour ==
    \/ StartFrame
    \/ StartMetadata
    \/ SessionStep
    \/ Callback
    \/ Misbehaviour

\* The pipeline within its contract: every accepted job invokes its
\* completion callback, once, and FlushJobs returns (with S_OK) once no job
\* is outstanding.  The session thread runs whenever it can.
ContractNext ==
    \/ StartFrame
    \/ StartMetadata
    \/ SessionStep
    \/ Callback

ContractSpec ==
    /\ Init
    /\ [][ContractNext]_vars
    /\ WF_vars(SessionStep)
    /\ WF_vars(Callback)

\* ------------------------------------------------------------------- claims

\* The index is a valid one for the open clip, as mathematical integers.
ValidIndex == 0 <= frameIndex /\ frameIndex < frameCount

\* A frame-extraction session whose clip is open.
FrameSessionOnClip == op = "frame" /\ acq["clip"] = 1

\* C1: a frame-extraction session never holds more than one outcome, and
\* once it has returned it holds exactly one, a success or a failure,
\* whatever the index and whatever the pipeline did.
C1_ExactlyOneOutcome ==
    op = "frame" =>
        /\ Len(results) <= 1
        /\ pc = "done" => Len(results) = 1

\* C1 witness: a session on a valid index that returned its one outcome, a
\* success, after the read and the process callbacks ran.
C1_Witness ==
    /\ FrameSessionOnClip /\ ValidIndex /\ pc = "done"
    /\ pcCalls = 1
    /\ Len(results) = 1 /\ results[1].success

\* C2: a session whose index is outside [0, frameCount) makes no pipeline
\* call (no SetCallback, no read job created or submitted, no FlushJobs,
\* no callback) and resolves to the out-of-range failure.
C2_OutOfRangeTouchesNothing ==
    (FrameSessionOnClip /\ ~ValidIndex) =>
        /\ calls["SetCallback"] = 0
        /\ calls["CreateJobReadFrame"] = 0
        /\ calls["SubmitRead"] = 0
        /\ calls["FlushJobs"] = 0
        /\ readJob = "none" /\ decodeJob = "none"
        /\ rc = NoRc /\ pcCalls = 0
        /\ pc \in {"index", "cleanup", "done"}
        /\ pc # "index" => results = <<Failure("Frame index out of range")>>

\* C2 witness: the index equal to the frame count of a non-empty clip was
\* rejected and the session returned.
C2_Witness ==
    /\ FrameSessionOnClip /\ pc = "done"
    /\ frameCount > 0 /\ frameIndex = frameCount
    /\ results = <<Failure("Frame index out of range")>>

\* C3: once ReadComplete was invoked with a failure, or SetResourceFormat or
\* CreateJobDecodeAndProcessFrame failed in it, the session has no decode
\* job: none was submitted and ProcessComplete never runs.
C3_NoDecodeAfterReadFailure ==
    (rc.status = "E_FAIL" \/ rc.format = "E_FAIL" \/ rc.create = "E_FAIL") =>
        /\ calls["SubmitDecode"] = 0
        /\ decodeJob = "none"
        /\ pcCalls = 0

\* C3 witnesses: each of the three failures happened in a session that
\* went on to return.
C3_Witness ==
    /\ op = "frame" /\ pc = "done" /\ readJob = "completed"
    /\ rc.status = "S_OK" /\ rc.format = "S_OK" /\ rc.create = "E_FAIL"
    /\ calls["CreateJobDecodeAndProcessFrame"] = 1

\* The failure stage of the specification that each message of the code
\* stands for (section 4.2 step 4 and section 7 of the specification); the
\* code has no message for a stage of its own for a failed read callback.
StageOf(r) ==
    IF r.success THEN "Decoded"
    ELSE CASE r.msg = "Processing error occurred" -> "ProcessFailed"
           [] r.msg = "No processed image received" -> "ResourceUnavailable"
           [] r.msg = "Failed to get image data" -> "ResourceUnavailable"
           [] r.msg = "Unexpected resource type" -> "UnsupportedResourceLocation"
           [] r.msg = "Frame index out of range" -> "FrameIndexOutOfRange"
           [] r.msg = "Failed to create read job" -> "ReadFailed"
           [] r.msg = "Failed to submit job" -> "ReadFailed"
           [] r.msg = "FlushJobs failed" -> "DrainFailed"
           [] r.msg = "Failed to write output file" -> "WriteFailed"
           [] OTHER -> "OpenError"

\* C4: a session whose ReadComplete was invoked with a failure, whose drain
\* returned S_OK and that returned resolved to a failure of the stage
\* ReadFailed, which is none of the stages reported for other failures.
C4_ReadFailureHasItsOwnStage ==
    (op = "frame" /\ pc = "done" /\ flushed = "S_OK" /\ rc.status = "E_FAIL") =>
        /\ Len(results) = 1
        /\ StageOf(results[1]) = "ReadFailed"

\* C5: the sink never releases an image more often than it took a reference
\* on it, and when a frame-extraction session has returned (after a drain
\* that returned S_OK) every reference the sink took has been released.
C5_EveryImageReleasedOnce ==
    \A i \in ImageIds :
        /\ imgRel[i] <= imgRef[i]
        /\ (op = "frame" /\ pc = "done" /\ flushed = "S_OK") =>
              imgRel[i] = imgRef[i]

\* The outcome the claim C6 gives for the state of the sink and of the
\* session's locals.
ClaimedOutcome ==
    IF error_occurred THEN "ProcessFailed"
    ELSE IF processed_image = 0 THEN "ResourceUnavailable"
    ELSE IF resourceType # "cpu" THEN "UnsupportedResourceLocation"
    ELSE IF imageData = "null" THEN "ResourceUnavailable"
    ELSE "Decoded"

\* The same with what the code adds: FlushJobs failing (braw-extract.cpp),
\* GetResource failing, write_ppm failing (braw-extract.cpp).
AmendedOutcome ==
    IF variant = "extract" /\ flushed = "E_FAIL" THEN "DrainFailed"
    ELSE IF error_occurred THEN "ProcessFailed"
    ELSE IF processed_image = 0 THEN "ResourceUnavailable"
    ELSE IF resourceType # "cpu" THEN "UnsupportedResourceLocation"
    ELSE IF result # "S_OK" \/ imageData # "nonnull" THEN "ResourceUnavailable"
    ELSE IF variant = "extract" /\ written # "yes" THEN "WriteFailed"
    ELSE "Decoded"

\* A session of braw_addon.cpp or braw-extract.cpp that returned after its
\* FlushJobs call returned.
ReturnedAfterDrain ==
    /\ op = "frame" /\ pc = "done" /\ flushed # "no"
    /\ variant \in {"addon", "extract"}

\* The one outcome is of stage st and, when Decoded, carries the width and
\* height the held image declares.
ResolvedTo(st) ==
    /\ Len(results) = 1
    /\ StageOf(results[1]) = st
    /\ st = "Decoded" =>
          /\ results[1].width = imgDims[processed_image][1]
          /\ results[1].height = imgDims[processed_image][2]

\* What holds of the one outcome of braw_addon.cpp whatever the callbacks
\* did while the checks ran (it ignores a failing drain): the checks are
\* made on the sink and the image as read at each of them.
ConsistentWithChecks ==
    /\ Len(results) = 1
    /\ LET st == StageOf(results[1]) IN
       /\ st \in {"ProcessFailed", "ResourceUnavailable",
                  "UnsupportedResourceLocation", "Decoded"}
       /\ st = "ProcessFailed" => error_occurred
       /\ st = "UnsupportedResourceLocation" => resourceType = "gpu"
       /\ st = "Decoded" =>
             /\ processed_image # 0
             /\ resourceType = "cpu"
             /\ imageData = "nonnull" /\ result = "S_OK"
             /\ \E i \in ImageIds :
                   /\ imgRef[i] > 0
                   /\ results[1].width = imgDims[i][1]
                   /\ results[1].height = imgDims[i][2]

\* C6 as claimed: after the drain returned, the outcome is ProcessFailed if
\* the error flag is set, else ResourceUnavailable if no image is held, else
\* UnsupportedResourceLocation if the image is not in CPU memory, else
\* ResourceUnavailable if the pixel pointer is null, else Decoded with the
\* image's size.
C6_OutcomeOrderAsClaimed == ReturnedAfterDrain => ResolvedTo(ClaimedOutcome)

\* C6 amended: after the drain returned S_OK the outcome is decided in the
\* claimed order, with GetResource failing counted with the null pointer and,
\* in braw-extract.cpp, a failed write of the file before Decoded; when the
\* drain reported an error braw-extract.cpp resolves to the drain failure
\* and braw_addon.cpp makes the same checks in the same order on the sink
\* as it reads it at each check.
C6_OutcomeOrder ==
    ReturnedAfterDrain =>
        IF flushed = "S_OK" \/ variant = "extract"
        THEN ResolvedTo(AmendedOutcome)
        ELSE ConsistentWithChecks

\* C6 witness: the drain returned S_OK, the image held is in CPU memory with
\* a pixel pointer, and the session resolved to Decoded with its size.
C6_Witness ==
    /\ ReturnedAfterDrain /\ flushed = "S_OK"
    /\ ~error_occurred /\ processed_image # 0
    /\ results = <<Success("frame", 2, 3)>>

\* The positions at which the session thread is about to read the sink or
\* the image it holds.
SinkReadPositions == {"chkerr", "chkimg", "dims", "restype", "getres", "emit"}

\* C7: the session thread of braw_addon.cpp and braw-extract.cpp reads the
\* sink only when no job of the session is outstanding.
C7_SinkReadAfterJobsFinished ==
    (variant \in {"addon", "extract"} /\ pc \in SinkReadPositions) =>
        NoJobOutstanding

\* C8: the decode-and-process job exists only after ReadComplete ran with
\* S_OK, configured the format and created it; it is outstanding, and
\* ProcessComplete runs, only after ReadComplete also submitted it.
C8_ProcessAfterRead ==
    /\ decodeJob # "none" =>
          /\ readJob = "completed"
          /\ rc.status = "S_OK" /\ rc.format = "S_OK" /\ rc.create = "S_OK"
    /\ (pcCalls > 0 \/ decodeJob \notin {"none", "rejected"}) =>
          rc.submit = "S_OK"

\* C8 witness: ProcessComplete ran while the session thread was waiting in
\* FlushJobs, after a ReadComplete that submitted the job.
C8_Witness ==
    /\ pc = "flush" /\ pcCalls = 1 /\ decodeJob = "completed"
    /\ readJob = "completed" /\ rc.submit = "S_OK"

\* C9: no handle is released that was not acquired or more than once, and
\* when the metadata query or the frame extraction has returned every
\* acquired handle has been released.
C9_HandlesReleasedOnce ==
    \A h \in Handles :
        /\ acq[h] <= 1
        /\ rel[h] <= acq[h]
        /\ pc = "done" => rel[h] = acq[h]

\* C9 witness: the clip failed to open; factory and codec, acquired, were
\* released and the clip was not.
C9_Witness ==
    /\ pc = "done"
    /\ acq = [h \in Handles |-> IF h = "clip" THEN 0 ELSE 1]
    /\ rel = acq

\* The session thread is inside an operation.
Running == pc \notin {"idle", "done"}

\* C10: with a pipeline that completes every accepted job and a drain that
\* returns once no job is outstanding, every frame-extraction session
\* returns with its one outcome; and the session thread can always take its
\* next step except in FlushJobs, where it can as soon as no job is
\* outstanding.
C10_EventuallyResolves ==
    /\ (op = "frame" /\ Running) ~> (pc = "done" /\ Len(results) = 1)
    /\ [](Running /\ pc # "flush" => ENABLED SessionStep)
    /\ [](pc = "flush" /\ NoJobOutstanding => ENABLED SessionStep)

\* C10 witness: a session that waited in FlushJobs for both callbacks and
\* then resolved.
C10_Witness ==
    /\ op = "frame" /\ pc = "done" /\ flushed = "S_OK"
    /\ readJob = "completed" /\ decodeJob = "completed"
    /\ Len(results) = 1

\* The four scalar properties of the clip the metadata query reads.
MetadataGetters == {"GetFrameCount", "GetWidth", "GetHeight", "GetFrameRate"}

\* C11: a metadata query makes no pipeline call but the four getters, each
\* at most once: it binds no sink, creates and submits no job, does not call
\* FlushJobs and no callback runs; once the clip is open and it has returned
\* it has read the four properties, and it has released what it opened.
C11_MetadataQueryIsPureRead ==
    op = "metadata" =>
        /\ \A c \in CallNames \ MetadataGetters : calls[c] = 0
        /\ \A c \in MetadataGetters : calls[c] <= 1
        /\ readJob = "none" /\ decodeJob = "none"
        /\ readJobRel = 0 /\ decodeJobRel = 0
        /\ rc = NoRc /\ pcCalls = 0
        /\ flushed = "no"
        /\ pc = "done" =>
              /\ rel = acq
              /\ acq["clip"] = 1 => \A c \in MetadataGetters : calls[c] = 1

\* C11 witness: a metadata query that opened the clip, read the four
\* properties, emitted its document and returned with all three handles
\* released.
C11_Witness ==
    /\ op = "metadata" /\ pc = "done"
    /\ \A c \in MetadataGetters : calls[c] = 1
    /\ Len(results) = 1 /\ results[1].success
    /\ \A h \in Handles : acq[h] = 1 /\ rel[h] = 1

\* C12: a metadata document for a clip that reports the frame rate 0 is not
\* an ordinary success carrying a non-finite duration.
C12_ZeroFrameRateFlagged ==
    (op = "metadata" /\ Len(results) = 1 /\ results[1].success) =>
        (results[1].frame_rate = 0 => results[1].duration.value = "finite")

\* The session's read job was not accepted: CreateJobReadFrame failed (no
\* job) or the job's Submit failed.
ReadJobNotAccepted ==
    /\ op = "frame"
    /\ calls["CreateJobReadFrame"] = 1
    /\ readJob \in {"none", "rejected"}

\* C13: when CreateJobReadFrame or the read job's Submit fails, the session
\* goes straight to its exit with the failure of that step: FlushJobs is not
\* called, the session thread never comes to the checks of the sink, no
\* ReadComplete or ProcessComplete runs and the sink stays as constructed.
C13_SubmissionFailureResolvesDirectly ==
    ReadJobNotAccepted =>
        /\ pc \in {"cleanup", "done"}
        /\ calls["FlushJobs"] = 0 /\ flushed = "no"
        /\ rc = NoRc /\ pcCalls = 0 /\ decodeJob = "none"
        /\ ~error_occurred /\ processed_image = 0 /\ ~g_output_success
        /\ results = <<Failure(IF readJob = "none"
                               THEN "Failed to create read job"
                               ELSE "Failed to submit job")>>
        /\ StageOf(results[1]) = "ReadFailed"

\* C13 witness: the read job was created, its Submit failed, and the session
\* returned with that failure.
C13_Witness ==
    /\ ReadJobNotAccepted /\ pc = "done"
    /\ calls["SubmitRead"] = 1 /\ readJob = "rejected"
    /\ results = <<Failure("Failed to submit job")>>

\* C14: in one session CreateJobReadFrame, the read job's Submit,
\* CreateJobDecodeAndProcessFrame, the decode job's Submit and FlushJobs are
\* each called at most once, whatever failed.
C14_NoRetry ==
    /\ calls["CreateJobReadFrame"] <= 1
    /\ calls["SubmitRead"] <= 1
    /\ calls["SetResourceFormat"] <= 1
    /\ calls["CreateJobDecodeAndProcessFrame"] <= 1
    /\ calls["SubmitDecode"] <= 1
    /\ calls["FlushJobs"] <= 1

\* C14 witness: the decode job's Submit failed in ReadComplete and the
\* session returned a failure having submitted each job once.
C14_Witness ==
    /\ op = "frame" /\ pc = "done"
    /\ rc.submit = "E_FAIL"
    /\ calls["SubmitRead"] = 1 /\ calls["SubmitDecode"] = 1
    /\ Len(results) = 1 /\ ~results[1].success

\* The operation left its opening steps without a clip: the factory, the
\* codec or the clip could not be had.
OpenFailed == pc \in {"cleanup", "done"} /\ acq["clip"] = 0

\* The message of the first opening step that acquired nothing.
OpenFailureMessage ==
    IF acq["factory"] = 0 THEN "Failed to create factory"
    ELSE IF acq["codec"] = 0 THEN "Failed to create codec"
    ELSE "Failed to open clip"

\* C15: handles are acquired in the order factory, codec, clip; when one of
\* the three steps fails, the metadata query or frame extraction emits the
\* one failure naming that step, has made no call on the clip or the codec
\* (no getter, no SetCallback, no job, no FlushJobs), runs no callback, and
\* has released, by its return, exactly the handles acquired before.
C15_OpenFailureLeavesNothingOpen ==
    /\ acq["clip"] = 1 => acq["codec"] = 1
    /\ acq["codec"] = 1 => acq["factory"] = 1
    /\ OpenFailed =>
          /\ results = <<Failure(OpenFailureMessage)>>
          /\ calls = NoCalls
          /\ readJob = "none" /\ decodeJob = "none"
          /\ rc = NoRc /\ pcCalls = 0
          /\ \A h \in Handles : rel[h] <= acq[h]
          /\ pc = "done" => rel = acq

\* C15 witness: a frame extraction whose codec could not be created
\* returned that failure with the factory released.
C15_Witness ==
    /\ op = "frame" /\ OpenFailed /\ pc = "done"
    /\ acq = [h \in Handles |-> IF h = "factory" THEN 1 ELSE 0]
    /\ rel = acq
    /\ results = <<Failure("Failed to create codec")>>

\* C16: whenever ProcessComplete was invoked with a status other than S_OK,
\* the sink's error flag is set and the image of that invocation was not
\* taken (no reference, not held); and the session, once it has returned
\* after a drain that returned S_OK, resolved to ProcessFailed.
C16_ProcessFailureReported ==
    \A k \in ImageIds :
        (op = "frame" /\ processResult[k] = "E_FAIL") =>
            /\ error_occurred
            /\ imgRef[k] = 0 /\ processed_image # k
            /\ (pc = "done" /\ flushed = "S_OK") =>
                  /\ Len(results) = 1
                  /\ StageOf(results[1]) = "ProcessFailed"

\* The step is an invocation of ReadComplete / of ProcessComplete.
ReadCompleteRan == readJob = "outstanding" /\ readJob' = "completed"
ProcessCompleteRan == pcCalls' = pcCalls + 1

\* C17: every invocation of ReadComplete, whichever of its steps failed,
\* releases the read job passed to it once, and every invocation of
\* ProcessComplete, with a success or a failure, releases the job passed to
\* it once and leaves the read job alone.
C17_CallbackReleasesItsJob ==
    [][/\ ReadCompleteRan => readJobRel' = readJobRel + 1
       /\ ProcessCompleteRan =>
             /\ decodeJobRel' = decodeJobRel + 1
             /\ readJobRel' = readJobRel]_vars

\* C17 witness: in braw_addon.cpp, where only the callbacks release jobs,
\* ReadComplete submitted the decode job and ProcessComplete was invoked
\* with a failure; each job has been released once.
C17_Witness ==
    /\ variant = "addon" /\ op = "frame"
    /\ readJob = "completed" /\ rc.submit = "S_OK"
    /\ pcCalls = 1 /\ processResult[1] = "E_FAIL"
    /\ readJobRel = 1 /\ decodeJobRel = 1

\* The index check has been made and rejected the index.
IndexRejected ==
    /\ Len(results) >= 1
    /\ results[1] = Failure("Frame index out of range")

\* C18: once the index check has been made, the index was rejected exactly
\* when it is outside [0, frameCount) as integers, for every frame count of
\* the unsigned type and every index of the signed index type.
C18_IndexCheckExact ==
    (FrameSessionOnClip /\ calls["GetFrameCount"] = 1) =>
        (IndexRejected <=> ~ValidIndex)

\* C19: a session that resolved to Decoded (after a drain that returned
\* S_OK) took from the image exactly width * height * 4 bytes of pixel data,
\* the product of the integers, for the width and height it reports.
C19_PixelBytesExact ==
    (/\ op = "frame" /\ pc = "done" /\ flushed = "S_OK"
     /\ Len(results) = 1 /\ results[1].success) =>
        bufferSize = results[1].width * results[1].height * BytesPerPixel

\* C20: with a pipeline within its contract (the callback of every accepted
\* job invoked once, FlushJobs returning once no job is outstanding), after
\* FlushJobs has returned in a session of braw_addon.cpp or braw-extract.cpp
\* (whose read job was therefore accepted and has completed) the sink either
\* holds a processed image or has its error flag set, and not both.
C20_ImageOrErrorNotBoth ==
    (/\ variant \in {"addon", "extract"}
     /\ op = "frame" /\ flushed # "no") =>
        /\ calls["SubmitRead"] = 1 /\ readJob = "completed"
        /\ (processed_image # 0) # error_occurred

\* C20 witness: the drain returned after ReadComplete submitted the decode
\* job and ProcessComplete failed: the flag is set and no image is held.
C20_Witness ==
    /\ variant \in {"addon", "extract"}
    /\ op = "frame" /\ flushed # "no"
    /\ pcCalls = 1 /\ processResult[1] = "E_FAIL"
    /\ error_occurred /\ processed_image = 0

\* References the program owns on a job: one from the moment the job is
\* created (CreateJobReadFrame / CreateJobDecodeAndProcessFrame returned
\* S_OK), none for a job that never existed.
OwnedReferences(j) == IF j = "none" THEN 0 ELSE 1

\* C21: with a pipeline within its contract, neither job is ever released
\* more often than the one reference the program owns, and when the session
\* has returned each job that was created (accepted or rejected) has been
\* released exactly once, by the session and the callbacks together.
C21_JobsReleasedOnce ==
    op = "frame" =>
        /\ readJobRel <= OwnedReferences(readJob)
        /\ decodeJobRel <= OwnedReferences(decodeJob)
        /\ pc = "done" =>
              /\ readJobRel = OwnedReferences(readJob)
              /\ decodeJobRel = OwnedReferences(decodeJob)

\* No job of the session is waiting for its callback, in the session or
\* after its return.
NoJobPending ==
    /\ NoJobOutstanding
    /\ readJob # "orphaned" /\ decodeJob # "orphaned"

\* C22: once the session has released the clip or the codec, or has
\* returned (the sink of braw_addon.cpp and braw-extractor.cpp is destroyed
\* at the return), no job of the session is waiting for its callback, and no
\* callback is invoked after the return; also when FlushJobs reported an
\* error.
C22_NoCallbackAfterRelease ==
    /\ (rel["clip"] > 0 \/ rel["codec"] > 0 \/ pc = "done") => NoJobPending
    /\ ~lateCallback

\* The sink as a new session finds it: no image held, no error, no success
\* recorded, no width and height.
SinkClean ==
    /\ processed_image = 0 /\ ~error_occurred
    /\ ~g_output_success
    /\ g_output_width = 0 /\ g_output_height = 0

C24_ErrorNeverDecoded ==
    (/\ variant \in {"addon", "extract"}
     /\ op = "frame" /\ pc = "done" /\ error_occurred) =>
        /\ Len(results) = 1
        /\ ~results[1].success

\* C25: whenever the pixel data of an image has been read, the image was
\* at that moment still the one the sink holds a reference to: the copy
\* or the write never went through the pixel pointer of an image already
\* released or replaced.
C25_PixelsReadWhileHeld ==
    pixelsRead # "released"

\* C26: an operation of braw-extract.cpp or braw-extractor.cpp that has
\* returned emitted exactly one result and returned 0 or 1, and it
\* returned 0 exactly when that result is a success result.
C26_ExitCodeMatchesResult ==
    (variant \in {"extract", "extractor"} /\ pc = "done") =>
        /\ Len(results) = 1
        /\ retCode \in {0, 1}
        /\ retCode = 0 <=> results[1].success

====
